---- MODULE Spec2Model ----
(***************************************************************************)
(* LM Studio bridge (scripts/lmstudio_bridge.py): five tools that call a   *)
(* backend HTTP API through one shared aiohttp session, run as coroutines  *)
(* on a single asyncio event loop.  A step of the model is what a          *)
(* coroutine does between two suspension points.                           *)
(***************************************************************************)
EXTENDS Naturals, Sequences, FiniteSets, TLC

\* session:     the global _session (0 is None, else the number of the session)
\* npools:      how many sessions get_session has built (numbered 1..npools)
\* closedPools: the sessions that are closed
\* exited:      mcp.run has returned and the atexit hook has run
\* inv:         per invocation slot, the tool running in it: its position (pc),
\*              arguments, local session, requests issued, the response it
\*              got, the tasks of its fan-out (br) and what it returned
\* cli:         a run of the installer command (scripts/generate_installer.py):
\*              its position, its arguments, what it built and what it did
VARIABLES session, npools, closedPools, exited, inv, cli

vars == <<session, npools, closedPools, exited, inv, cli>>

(* ------------------------------ bounds -------------------------------- *)

\* longest model list given to multi_agent_query
MaxLen == 2

\* tool invocations the host may have in flight at the same time
Inv == {1, 2}

\* invocation slots in which the host issues multi_agent_query; invocations
\* share nothing but _session, so one fan-out runs beside any other tool
FanoutSlots == {1}

ModelIds == {"a", "b"}

(* --------------------------- program constants ------------------------ *)

\* temperature default 0.7, in tenths
DefaultTemperature == 7

DefaultMaxTokens == 1024

\* get_current_model's probe: max_tokens
ProbeMaxTokens == 10

\* error_text[:200]
ErrorTextCut == 200

(* ------------------------------ inputs -------------------------------- *)

\* (prompt, system_prompt, temperature, max_tokens, model) of a call
ArgSets ==
    { [prompt |-> "p", system_prompt |-> "", temperature |-> DefaultTemperature,
       max_tokens |-> DefaultMaxTokens, model |-> ""],
      [prompt |-> "q", system_prompt |-> "sys", temperature |-> 0,
       max_tokens |-> 16, model |-> "a"] }

NoArgs == [prompt |-> "", system_prompt |-> "", temperature |-> 0,
           max_tokens |-> 0, model |-> ""]

\* A response body.  json: the body parses as a JSON object; the other
\* fields say which keys the object has and what they hold.
NoBody == [json |-> FALSE, choices |-> "absent", hasMessage |-> FALSE,
           hasContent |-> FALSE, content |-> "", hasUsage |-> FALSE,
           tokens |-> 0, data |-> "absent", hasModel |-> FALSE, model |-> ""]

Obj == [NoBody EXCEPT !.json = TRUE]

Completion(c, u) ==
    [Obj EXCEPT !.choices = "one", !.hasMessage = TRUE, !.hasContent = TRUE,
                !.content = c, !.hasUsage = (u > 0), !.tokens = u,
                !.hasModel = TRUE, !.model = "m1"]

\* bodies of POST /chat/completions
ChatBodies ==
    { Completion("x", 7), Completion("y", 0), Completion("", 3),
      [Obj EXCEPT !.choices = "empty"],
      Obj,
      [Obj EXCEPT !.choices = "one"],
      [Obj EXCEPT !.choices = "one", !.hasMessage = TRUE],
      NoBody }

\* bodies of POST /chat/completions that the fan-out is run against
FanoutBodies ==
    { Completion("x", 7), Completion("y", 0), [Obj EXCEPT !.choices = "empty"] }

\* bodies of POST /chat/completions that get_current_model is run against
ProbeBodies == { Completion("x", 7), Obj, NoBody }

\* bodies of GET /models
ModelsBodies ==
    { [Obj EXCEPT !.data = "ids"], [Obj EXCEPT !.data = "noid"],
      [Obj EXCEPT !.data = "empty"], Obj, NoBody }

Http(s, b, t) == [kind |-> "http", status |-> s, body |-> b, errtext |-> t,
                  exc |-> "", msg |-> ""]

\* the request raised instead of answering: a connection error or a timeout
NetErr == [kind |-> "raise", status |-> 0, body |-> NoBody, errtext |-> "",
           exc |-> "ClientConnectorError", msg |-> "Cannot connect to host"]

\* the task awaiting the request was cancelled
Cancelled == [kind |-> "raise", status |-> 0, body |-> NoBody, errtext |-> "",
              exc |-> "CancelledError", msg |-> ""]

NoResp == [kind |-> "none", status |-> 0, body |-> NoBody, errtext |-> "",
           exc |-> "", msg |-> ""]

Responses(bodies) ==
    {Http(200, b, "") : b \in bodies} \cup {Http(500, NoBody, "oops"), NetErr}

(* ----------------------- exceptions and results ----------------------- *)

\* error_text[:200]
Cut(t) == IF Len(t) <= ErrorTextCut THEN t ELSE SubSeq(t, 1, ErrorTextCut)

\* classes that `except Exception` catches; asyncio.CancelledError derives
\* from BaseException and is not among them
ExceptionClasses ==
    {"ClientConnectorError", "ContentTypeError", "KeyError", "IndexError",
     "TypeError", "Exception"}

IsException(cls) == cls \in ExceptionClasses

\* what a block of code ends with: a returned text or a raised exception
Return(v) == [raised |-> FALSE, exc |-> "", val |-> v]

Raise(cls, m) == [raised |-> TRUE, exc |-> cls, val |-> m]

\* a block with no except clause
ExceptNothing(r, prefix) == r

\* try: <r>  except Exception as e: return prefix + str(e)
Except(r, prefix) ==
    IF r.raised /\ IsException(r.exc) THEN Return(prefix \o r.val) ELSE r

\* a value returned by a tool: a plain text, or the text of a JSON object
\* (obj: its keys and entries; an {"error": msg} object keeps msg in text)
Text(t) == [kind |-> "text", text |-> t, obj |-> <<>>]

NoRet == [kind |-> "none", text |-> "", obj |-> <<>>]

(* --------------------------- get_session ------------------------------ *)

\* a get_session that builds a session on every call
get_session_always_new ==
    /\ session' = npools + 1
    /\ npools' = npools + 1
    /\ UNCHANGED closedPools

\* `_session is None or _session.closed`
NeedsNewSession == session = 0 \/ session \in closedPools

\* get_session has no suspension point: it runs as part of the caller's step
get_session ==
    /\ session' = IF NeedsNewSession THEN npools + 1 ELSE session
    /\ npools' = IF NeedsNewSession THEN npools + 1 ELSE npools
    /\ UNCHANGED closedPools

(* ------------------------------ requests ------------------------------ *)

Messages(a) ==
    (IF a.system_prompt # "" THEN <<[role |-> "system", content |-> a.system_prompt]>>
     ELSE <<>>)
    \o <<[role |-> "user", content |-> a.prompt]>>

Get(path) == [method |-> "GET", path |-> path, hasModel |-> FALSE, model |-> "",
              messages |-> <<>>, temperature |-> 0, max_tokens |-> 0]

Post(hasModel, model, messages, temperature, max_tokens) ==
    [method |-> "POST", path |-> "/chat/completions", hasModel |-> hasModel,
     model |-> model, messages |-> messages, temperature |-> temperature,
     max_tokens |-> max_tokens]

(* --------------------- the single-request tools ----------------------- *)

HealthCheckBody(resp) ==
    IF resp.kind = "raise" THEN Raise(resp.exc, resp.msg)
    ELSE IF resp.status = 200 THEN Return("LM Studio API is running and accessible.")
    ELSE Return("LM Studio API returned status code " \o ToString(resp.status) \o ".")

HealthCheckResult(resp) ==
    Except(HealthCheckBody(resp), "Error connecting to LM Studio API: ")

ListModelsBody(resp) ==
    IF resp.kind = "raise" THEN Raise(resp.exc, resp.msg)
    ELSE IF resp.status # 200
    THEN Return("Failed to fetch models. Status code: " \o ToString(resp.status))
    ELSE IF ~resp.body.json THEN Raise("ContentTypeError", "unexpected mimetype")
    ELSE IF resp.body.data \in {"absent", "empty"}
    THEN Return("No models found in LM Studio.")
    ELSE IF resp.body.data = "noid" THEN Raise("KeyError", "'id'")
    ELSE Return("Available models in LM Studio:\n\n" \o "- " \o "m1" \o "\n")

ListModelsResult(resp) == Except(ListModelsBody(resp), "Error listing models: ")

GetCurrentModelBody(resp) ==
    IF resp.kind = "raise" THEN Raise(resp.exc, resp.msg)
    ELSE IF resp.status # 200
    THEN Return("Failed to identify current model. Status code: "
                \o ToString(resp.status))
    ELSE IF ~resp.body.json THEN Raise("ContentTypeError", "unexpected mimetype")
    ELSE Return("Currently loaded model: "
                \o (IF resp.body.hasModel THEN resp.body.model ELSE "Unknown"))

GetCurrentModelResult(resp) ==
    Except(GetCurrentModelBody(resp), "Error identifying current model: ")

\* chat_completion without `if not content`
ChatCompletionBodyNoEmptyCheck(resp) ==
    IF resp.kind = "raise" THEN Raise(resp.exc, resp.msg)
    ELSE IF resp.status # 200
    THEN Return("Error: LM Studio returned status code " \o ToString(resp.status)
                \o ": " \o Cut(resp.errtext))
    ELSE IF ~resp.body.json THEN Raise("ContentTypeError", "unexpected mimetype")
    ELSE IF resp.body.choices \in {"absent", "empty"}
    THEN Return("Error: No response generated")
    ELSE Return(resp.body.content)

ChatCompletionBody(resp) ==
    IF resp.kind = "raise" THEN Raise(resp.exc, resp.msg)
    ELSE IF resp.status # 200
    THEN Return("Error: LM Studio returned status code " \o ToString(resp.status)
                \o ": " \o Cut(resp.errtext))
    ELSE IF ~resp.body.json THEN Raise("ContentTypeError", "unexpected mimetype")
    ELSE IF resp.body.choices \in {"absent", "empty"}
    THEN Return("Error: No response generated")
    ELSE IF ~resp.body.hasMessage \/ ~resp.body.hasContent \/ resp.body.content = ""
    THEN Return("Error: Empty response from model")
    ELSE Return(resp.body.content)

ChatCompletionResult(resp) ==
    Except(ChatCompletionBody(resp), "Error generating completion: ")

(* --------------------------- the fan-out ------------------------------ *)

Success(content, tokens) ==
    [success |-> TRUE, content |-> content, tokens |-> tokens, error |-> ""]

Failure(error) ==
    [success |-> FALSE, content |-> "", tokens |-> 0, error |-> error]

\* what asyncio.gather reports for one task: the (model, result) tuple the
\* coroutine returned, or the exception it ended with
Tuple(model, res) ==
    [tag |-> "tuple", model |-> model, res |-> res, exc |-> "", msg |-> ""]

Exc(cls, m) ==
    [tag |-> "exc", model |-> "", res |-> Failure(""), exc |-> cls, msg |-> m]

NoOut == [tag |-> "none", model |-> "", res |-> Failure(""), exc |-> "", msg |-> ""]

\* the try block of query_single_model, resumed with the request's outcome
QuerySingleModelBody(model, resp) ==
    IF resp.kind = "raise" THEN Exc(resp.exc, resp.msg)
    ELSE IF resp.status = 200
    THEN IF ~resp.body.json THEN Exc("ContentTypeError", "unexpected mimetype")
         ELSE IF resp.body.choices = "absent" THEN Exc("KeyError", "'choices'")
         ELSE IF resp.body.choices = "empty"
         THEN Exc("IndexError", "list index out of range")
         ELSE IF ~resp.body.hasMessage THEN Exc("KeyError", "'message'")
         ELSE IF ~resp.body.hasContent THEN Exc("KeyError", "'content'")
         ELSE Tuple(model, Success(resp.body.content,
                                   IF resp.body.hasUsage THEN resp.body.tokens ELSE 0))
    ELSE Tuple(model, Failure("HTTP " \o ToString(resp.status) \o ": " \o Cut(resp.errtext)))

\* query_single_model without its except clause
query_single_model_uncaught(model, resp) == QuerySingleModelBody(model, resp)

\* query_single_model: the try block under `except Exception`
query_single_model(model, resp) ==
    LET r == QuerySingleModelBody(model, resp)
    IN  IF r.tag = "exc" /\ IsException(r.exc) THEN Tuple(model, Failure(r.msg))
        ELSE r

\* a mapping that keeps the first value stored under a key
DictSetKeepFirst(d, k, v) ==
    [x \in DOMAIN d \cup {k} |-> IF x \in DOMAIN d THEN d[x] ELSE v]

\* results[k] = v
DictSet(d, k, v) == [x \in DOMAIN d \cup {k} |-> IF x = k THEN v ELSE d[x]]

\* the loop over task_results, from position k on
RECURSIVE ProcessResults(_, _, _)
ProcessResults(task_results, k, results) ==
    IF k > Len(task_results) THEN [raised |-> FALSE, exc |-> "", val |-> "",
                                   results |-> results]
    ELSE IF task_results[k].tag = "exc"
    THEN IF IsException(task_results[k].exc)
         THEN ProcessResults(task_results, k + 1,
                             DictSet(results, "unknown", Failure(task_results[k].msg)))
         ELSE [raised |-> TRUE, exc |-> "TypeError",
               val |-> "cannot unpack non-iterable " \o task_results[k].exc \o " object",
               results |-> results]
    ELSE ProcessResults(task_results, k + 1,
                        DictSet(results, task_results[k].model, task_results[k].res))

Json(results) == [kind |-> "json", text |-> "", obj |-> results]

JsonError(m) == [kind |-> "jsonerr", text |-> m, obj |-> <<>>]

\* the keys of the JSON object a tool returned
JsonKeys(ret) == IF ret.kind = "jsonerr" THEN {"error"} ELSE DOMAIN ret.obj

\* multi_agent_query from the return of gather on, under its `except Exception`
MultiAgentResult(task_results) ==
    LET p == ProcessResults(task_results, 1, <<>>)
    IN  IF ~p.raised THEN [raised |-> FALSE, ret |-> Json(p.results)]
        ELSE IF IsException(p.exc)
        THEN [raised |-> FALSE, ret |-> JsonError("Multi-agent query failed: " \o p.val)]
        ELSE [raised |-> TRUE, ret |-> NoRet]

\* no test of the list
NoModelsUnchecked(models) == FALSE

\* `if not models`
NoModels(models) == models = <<>>

\* a wait that ends with the first task that completes
GatherFirstCompleted(br) == \E k \in DOMAIN br : br[k].st = "done"

\* a wait that counts only the tasks that returned
GatherCountsReturns(br) ==
    \A k \in DOMAIN br : br[k].st = "done" /\ br[k].out.tag = "tuple"

\* asyncio.gather(*tasks, return_exceptions=True) resumes its awaiter
GatherDone(br) == \A k \in DOMAIN br : br[k].st = "done"

TaskResults(br) ==
    LET outs == [k \in DOMAIN br |-> br[k].out]
    IN  SelectSeq(outs, LAMBDA o : o.tag # "none")

\* the lists of at most MaxLen identifiers, up to renaming of the
\* identifiers: a non-empty list starts with "a"
ModelLists ==
    {ms \in UNION {[1..n -> ModelIds] : n \in 0..MaxLen} : ms = <<>> \/ ms[1] = "a"}

NewBranch == [st |-> "new", resp |-> NoResp, out |-> NoOut]

(* ---------------- the installer command: data and helpers ------------- *)

\* an option of the command line: not given (argparse leaves None), or a text
NotGiven == [given |-> FALSE, text |-> ""]

Given(t) == [given |-> TRUE, text |-> t]

\* Python truth of an option's value: None and "" are false
Truthy(o) == o.given /\ o.text # ""

\* `o or default`
OrDefault(o, default) == IF Truthy(o) THEN o.text ELSE default

\* texts given for --headers and --env: an object, the empty object, and two
\* texts that are not JSON
ValidJson == "{\"K\": \"v\"}"

EmptyJson == "{}"

BrokenJson == "{\"K\": "

JsonTexts == {ValidJson, EmptyJson, BrokenJson, ""}

\* a parsed value: None, or a dict
PyNone == [isNone |-> TRUE, dict |-> <<>>]

PyDict(d) == [isNone |-> FALSE, dict |-> d]

\* `if headers:` / `if env_vars:`
TruthyValue(v) == ~v.isNone /\ DOMAIN v.dict # {}

\* a json.loads that answers None for a text it cannot parse
JsonLoadsLenient(t) ==
    IF t = ValidJson THEN [raised |-> FALSE, value |-> PyDict("K" :> "v")]
    ELSE IF t = EmptyJson THEN [raised |-> FALSE, value |-> PyDict(<<>>)]
    ELSE [raised |-> FALSE, value |-> PyNone]

\* json.loads: the value of the text, or JSONDecodeError
JsonLoads(t) ==
    IF t = ValidJson THEN [raised |-> FALSE, value |-> PyDict("K" :> "v")]
    ELSE IF t = EmptyJson THEN [raised |-> FALSE, value |-> PyDict(<<>>)]
    ELSE [raised |-> TRUE, value |-> PyNone]

\* `json.loads(args.x) if args.x else None`
LoadsIfGiven(o) ==
    IF Truthy(o) THEN JsonLoads(o.text) ELSE [raised |-> FALSE, value |-> PyNone]

\* a server configuration: the keys it has and what they hold
NoConfig == [keys |-> {}, command |-> "", args |-> <<>>, env |-> <<>>, url |-> "",
             headers |-> <<>>]

create_stdio_config(command, script_path, env_vars) ==
    IF TruthyValue(env_vars)
    THEN [NoConfig EXCEPT !.keys = {"command", "args", "env"}, !.command = command,
                          !.args = <<script_path>>, !.env = env_vars.dict]
    ELSE [NoConfig EXCEPT !.keys = {"command", "args"}, !.command = command,
                          !.args = <<script_path>>]

create_sse_config(url, headers) ==
    IF TruthyValue(headers)
    THEN [NoConfig EXCEPT !.keys = {"url", "headers"}, !.url = url,
                          !.headers = headers.dict]
    ELSE [NoConfig EXCEPT !.keys = {"url"}, !.url = url]

PresetNames == {"concurrent", "local", "docker"}

PRESETS(p) ==
    IF p = "concurrent"
    THEN [name |-> "lmstudio-concurrent",
          description |-> "Concurrent multi-agent MCP server with async support",
          config |-> [NoConfig EXCEPT
              !.keys = {"command", "args", "env"},
              !.command = "/Users/samscarrow/miniconda3/bin/python3",
              !.args = <<"/Users/samscarrow/claude-workspace/sandbox/lmstudio-mcp-consolidated/lmstudio_bridge.py">>,
              !.env = ("LMSTUDIO_API_BASE" :> "http://192.168.50.136:1234/v1")]]
    ELSE IF p = "local"
    THEN [name |-> "lmstudio-local",
          description |-> "Local LM Studio MCP server",
          config |-> [NoConfig EXCEPT
              !.keys = {"command", "args", "env"},
              !.command = "python3",
              !.args = <<"./lmstudio_bridge.py">>,
              !.env = ("LMSTUDIO_API_BASE" :> "http://localhost:1234/v1")]]
    ELSE [name |-> "lmstudio-docker",
          description |-> "Dockerized LM Studio MCP server",
          config |-> [NoConfig EXCEPT
              !.keys = {"command", "args"},
              !.command = "docker",
              !.args = <<"run", "-i", "--rm", "--network=host", "lmstudio-mcp:latest">>]]

NoCliArgs ==
    [preset |-> NotGiven, name |-> NotGiven, command |-> NotGiven, script |-> NotGiven,
     env |-> NotGiven, url |-> NotGiven, headers |-> NotGiven,
     output |-> "installer.html", open |-> FALSE, print_link |-> FALSE]

\* the command lines the installer is run with
CliArgs ==
    {[NoCliArgs EXCEPT !.preset = p, !.name = n, !.url = u, !.headers = h, !.env = e,
                       !.open = o, !.print_link = l] :
        p \in {NotGiven} \cup {Given(x) : x \in PresetNames},
        n \in {NotGiven, Given("mine")},
        u \in {NotGiven, Given("http://host/sse")},
        h \in {NotGiven} \cup {Given(t) : t \in JsonTexts},
        e \in {NotGiven} \cup {Given(t) : t \in JsonTexts},
        o \in BOOLEAN, l \in BOOLEAN}

\* the installer command is not running
NoRun == [pc |-> "none", args |-> NoCliArgs, server_name |-> "", config |-> NoConfig,
          description |-> "", effects |-> <<>>]

(* ------------------------------- state -------------------------------- *)

IdleSlot ==
    [tool |-> "none", pc |-> "idle", args |-> NoArgs, models |-> <<>>, sess |-> 0,
     reqs |-> <<>>, resp |-> NoResp, br |-> <<>>, ret |-> NoRet]

Init ==
    /\ session = 0
    /\ npools = 0
    /\ closedPools = {}
    /\ exited = FALSE
    /\ inv = [i \in Inv |-> IdleSlot]
    /\ cli = NoRun

\* a tool coroutine from its start to `async with session.get/post(...)`
Calls(i, t, a, req) ==
    /\ get_session
    /\ inv' = [inv EXCEPT ![i] = [IdleSlot EXCEPT !.tool = t, !.pc = "wait", !.args = a,
                                                  !.sess = session', !.reqs = <<req>>]]
    /\ UNCHANGED <<exited, cli>>

\* a tool coroutine from the outcome resp of its request to its end
Resumes(i, resp, r) ==
    /\ inv' = [inv EXCEPT ![i].pc = IF r.raised THEN "raised" ELSE "returned",
                          ![i].resp = resp,
                          ![i].ret = IF r.raised THEN NoRet ELSE Text(r.val)]
    /\ UNCHANGED <<session, npools, closedPools, exited, cli>>

\* the host may start a tool in slot i
CanCall(i) == ~exited /\ inv[i].pc = "idle"

\* tool t in slot i awaits its request
Awaits(i, t) == inv[i].pc = "wait" /\ inv[i].tool = t

health_check(i) ==
    /\ CanCall(i)
    /\ Calls(i, "health_check", NoArgs, Get("/models"))

health_check_resume(i) ==
    /\ Awaits(i, "health_check")
    /\ \E resp \in Responses({Obj}) : Resumes(i, resp, HealthCheckResult(resp))

list_models(i) ==
    /\ CanCall(i)
    /\ Calls(i, "list_models", NoArgs, Get("/models"))

list_models_resume(i) ==
    /\ Awaits(i, "list_models")
    /\ \E resp \in Responses(ModelsBodies) : Resumes(i, resp, ListModelsResult(resp))

get_current_model(i) ==
    /\ CanCall(i)
    /\ Calls(i, "get_current_model", NoArgs,
             Post(FALSE, "", <<[role |-> "system", content |-> "What model are you?"]>>,
                  DefaultTemperature, ProbeMaxTokens))

get_current_model_resume(i) ==
    /\ Awaits(i, "get_current_model")
    /\ \E resp \in Responses(ProbeBodies) :
         Resumes(i, resp, GetCurrentModelResult(resp))

chat_completion(i) ==
    /\ CanCall(i)
    /\ \E a \in ArgSets :
         Calls(i, "chat_completion", a,
               Post(a.model # "", a.model, Messages(a), a.temperature, a.max_tokens))

chat_completion_resume(i) ==
    /\ Awaits(i, "chat_completion")
    /\ \E resp \in Responses(ChatBodies) :
         Resumes(i, resp, ChatCompletionResult(resp))

\* multi_agent_query from its start to `await asyncio.gather(...)`, or to its
\* return when the list is empty
multi_agent_query(i) ==
    /\ CanCall(i)
    /\ i \in FanoutSlots
    /\ \E a \in ArgSets, ms \in ModelLists :
         IF NoModels(ms)
         THEN /\ inv' = [inv EXCEPT ![i] =
                           [IdleSlot EXCEPT !.tool = "multi_agent_query",
                                            !.pc = "returned", !.args = a,
                                            !.ret = JsonError("No models specified")]]
              /\ UNCHANGED <<session, npools, closedPools>>
         ELSE /\ get_session
              /\ inv' = [inv EXCEPT ![i] =
                           [IdleSlot EXCEPT !.tool = "multi_agent_query",
                                            !.pc = "gather", !.args = a, !.models = ms,
                                            !.sess = session',
                                            !.br = [k \in 1..Len(ms) |-> NewBranch]]]
    /\ UNCHANGED <<exited, cli>>

\* a payload built from the first model of the list
PayloadFirstModel(slot, k) ==
    Post(TRUE, slot.models[1], Messages(slot.args), slot.args.temperature,
         slot.args.max_tokens)

\* the payload of the request for models[k]
Payload(slot, k) ==
    Post(TRUE, slot.models[k], Messages(slot.args), slot.args.temperature,
         slot.args.max_tokens)

\* the task of models[k] from its start to `async with session.post(...)`;
\* the event loop starts the tasks of one gather in list order
query_single_model_start(i, k) ==
    /\ inv[i].pc = "gather"
    /\ k \in DOMAIN inv[i].br
    /\ inv[i].br[k].st = "new"
    /\ \A j \in 1..(k - 1) : inv[i].br[j].st # "new"
    /\ inv' = [inv EXCEPT ![i].br[k].st = "sent",
                          ![i].reqs = Append(@, Payload(inv[i], k))]
    /\ UNCHANGED <<session, npools, closedPools, exited, cli>>

\* the task of models[k] awaits its request
AwaitsRequest(i, k) ==
    /\ inv[i].pc = "gather"
    /\ k \in DOMAIN inv[i].br
    /\ inv[i].br[k].st = "sent"

\* the task of models[k] ends with the outcome resp of its request
BranchEnds(i, k, resp) ==
    /\ inv' = [inv EXCEPT ![i].br[k] =
                 [st |-> "done", resp |-> resp,
                  out |-> query_single_model(inv[i].models[k], resp)]]
    /\ UNCHANGED <<session, npools, closedPools, exited, cli>>

\* the request of models[k] is answered, or fails, or times out
query_single_model_resume(i, k) ==
    /\ AwaitsRequest(i, k)
    /\ \E resp \in Responses(FanoutBodies) : BranchEnds(i, k, resp)

\* the task of models[k] is cancelled while it awaits its request
task_cancelled(i, k) ==
    /\ AwaitsRequest(i, k)
    /\ BranchEnds(i, k, Cancelled)

\* multi_agent_query from the return of gather to its end
multi_agent_query_resume(i) ==
    /\ inv[i].pc = "gather"
    /\ GatherDone(inv[i].br)
    /\ LET r == MultiAgentResult(TaskResults(inv[i].br))
       IN  inv' = [inv EXCEPT ![i].pc = IF r.raised THEN "raised" ELSE "returned",
                              ![i].ret = r.ret]
    /\ UNCHANGED <<session, npools, closedPools, exited, cli>>

\* the host has the result (or the fault) and the slot is free again
reply(i) ==
    /\ inv[i].pc \in {"returned", "raised"}
    /\ inv' = [inv EXCEPT ![i] = IdleSlot]
    /\ UNCHANGED <<session, npools, closedPools, exited, cli>>

\* `if _session and not _session.closed: await _session.close()`
cleanup_session ==
    closedPools' = IF session # 0 /\ session \notin closedPools
                   THEN closedPools \cup {session} ELSE closedPools

\* main: mcp.run returns with no invocation left, then the atexit hook runs
shutdown ==
    /\ ~exited
    /\ \A i \in Inv : inv[i].pc = "idle"
    /\ exited' = TRUE
    /\ cleanup_session
    /\ UNCHANGED <<session, npools, inv, cli>>

Next ==
    \/ \E i \in Inv :
         \/ health_check(i)
         \/ health_check_resume(i)
         \/ list_models(i)
         \/ list_models_resume(i)
         \/ get_current_model(i)
         \/ get_current_model_resume(i)
         \/ chat_completion(i)
         \/ chat_completion_resume(i)
         \/ multi_agent_query(i)
         \/ multi_agent_query_resume(i)
         \/ reply(i)
         \/ \E k \in 1..MaxLen :
              \/ query_single_model_start(i, k)
              \/ query_single_model_resume(i, k)
              \/ task_cancelled(i, k)
    \/ shutdown

Spec == Init /\ [][Next]_vars

\* a step of the fan-out of invocation i that the event loop and the backend
\* owe it: a task that can start is started, a request that was issued gets
\* its outcome, the awaiter of a finished gather is resumed
FanoutProgress(i) ==
    \/ multi_agent_query_resume(i)
    \/ \E k \in 1..MaxLen :
         query_single_model_start(i, k) \/ query_single_model_resume(i, k)

\* fair scheduling of the event loop, and requests that end: every request
\* has a response, an error or its timeout (ClientTimeout(total=300, connect=10))
Fairness == \A i \in FanoutSlots : WF_vars(FanoutProgress(i))

LiveSpec == Spec /\ Fairness

(* ------------------------------ claims -------------------------------- *)

Range(f) == {f[x] : x \in DOMAIN f}

\* the last list position that holds identifier m
LastPos(models, m) ==
    CHOOSE k \in DOMAIN models :
        models[k] = m /\ \A j \in DOMAIN models : models[j] = m => j <= k

\* an invocation of multi_agent_query with a non-empty list that has ended
FanoutEnded(i) ==
    /\ inv[i].tool = "multi_agent_query"
    /\ inv[i].pc \in {"returned", "raised"}
    /\ inv[i].models # <<>>

\* the request's outcome is one the backend produced: a response, or a
\* network error
BackendOutcome(resp) == resp.kind = "http" \/ resp = NetErr

\* status 200 with a body that has choices[0].message.content
WellFormed(resp) ==
    /\ resp.kind = "http"
    /\ resp.status = 200
    /\ resp.body.json
    /\ resp.body.choices = "one"
    /\ resp.body.hasMessage
    /\ resp.body.hasContent

BackendFailure(resp) == BackendOutcome(resp) /\ ~WellFormed(resp)

\* C1: whatever the outcomes of the per-model requests (status 200 with a
\* well-formed body, another status, a network error, a malformed body), and
\* also when the list repeats an identifier, the keys of the aggregate that
\* multi_agent_query returns are the requested identifiers, leaving aside
\* the key "unknown".
C1_KeySetEqualsModels ==
    \A i \in Inv :
        (FanoutEnded(i) /\ \A k \in DOMAIN inv[i].br : BackendOutcome(inv[i].br[k].resp))
        => /\ inv[i].pc = "returned"
           /\ inv[i].ret.kind = "json"
           /\ JsonKeys(inv[i].ret) \ {"unknown"} = Range(inv[i].models) \ {"unknown"}

\* a list that repeats an identifier, both requests failed in different ways
C1_Witness ==
    \E i \in Inv :
        /\ FanoutEnded(i)
        /\ Len(inv[i].models) = 2
        /\ inv[i].models[1] = inv[i].models[2]
        /\ inv[i].br[1].resp.kind = "http" /\ inv[i].br[1].resp.status = 500
        /\ inv[i].br[2].resp = NetErr
        /\ JsonKeys(inv[i].ret) = {inv[i].models[1]}

\* exactly the request at position f failed and every other one succeeded
OnlyFails(i, f) ==
    /\ FanoutEnded(i)
    /\ f \in DOMAIN inv[i].br
    /\ BackendFailure(inv[i].br[f].resp)
    /\ \A k \in DOMAIN inv[i].br \ {f} : WellFormed(inv[i].br[k].resp)

\* C2 as stated: if exactly one request fails, every other requested model
\* has a Success entry under its own identifier with the content returned
\* for that model's request, the failing model's entry is a Failure entry,
\* and the operation is not aborted.
C2_AsStated ==
    \A i \in Inv : \A f \in 1..MaxLen :
        OnlyFails(i, f)
        => /\ inv[i].pc = "returned"
           /\ inv[i].ret.kind = "json"
           /\ \A m \in Range(inv[i].models) \ {inv[i].models[f]} :
                /\ m \in JsonKeys(inv[i].ret)
                /\ inv[i].ret.obj[m].success
                /\ \E k \in DOMAIN inv[i].br :
                     /\ inv[i].models[k] = m
                     /\ inv[i].ret.obj[m].content = inv[i].br[k].resp.body.content
           /\ inv[i].models[f] \in JsonKeys(inv[i].ret)
           /\ ~inv[i].ret.obj[inv[i].models[f]].success

\* C2 (amended): if exactly one request fails, the operation is not aborted
\* and no other request is cancelled; the entry of every requested identifier
\* is the outcome of the last list position that holds it: a Success entry
\* with the content returned for that request, or, when that position is the
\* failing one, a Failure entry.  So every other model's entry is a Success
\* entry, and the failing model's entry is a Failure entry unless the list
\* repeats its identifier after the failing position.
C2_OneFailureIsolated ==
    \A i \in Inv : \A f \in 1..MaxLen :
        OnlyFails(i, f)
        => /\ inv[i].pc = "returned"
           /\ inv[i].ret.kind = "json"
           /\ \A k \in DOMAIN inv[i].br : inv[i].br[k].resp # Cancelled
           /\ \A m \in Range(inv[i].models) :
                LET l == LastPos(inv[i].models, m)
                    e == inv[i].ret.obj[m]
                IN  /\ m \in JsonKeys(inv[i].ret)
                    /\ (l = f) => (~e.success /\ e.error # "")
                    /\ (l # f) => (e.success
                                   /\ e.content = inv[i].br[l].resp.body.content)

\* two models, the first one's request failed, the second one's succeeded
C2_Witness ==
    \E i \in Inv :
        /\ OnlyFails(i, 1)
        /\ Len(inv[i].models) = 2
        /\ inv[i].models[1] # inv[i].models[2]
        /\ inv[i].ret.obj[inv[i].models[2]].success
        /\ ~inv[i].ret.obj[inv[i].models[1]].success

\* C3: multi_agent_query is a join-all barrier: with a non-empty list its
\* result exists only when every per-model request it launched has been
\* issued and has completed; never while one is in flight.
C3_JoinAll ==
    \A i \in Inv :
        FanoutEnded(i)
        => /\ \A k \in DOMAIN inv[i].br : inv[i].br[k].st = "done"
           /\ Len(inv[i].br) = Len(inv[i].models)
           /\ Len(inv[i].reqs) = Len(inv[i].models)

\* a result over two requests, one completed with a failure
C3_Witness ==
    \E i \in Inv :
        /\ FanoutEnded(i)
        /\ Len(inv[i].models) = 2
        /\ inv[i].br[1].resp = NetErr
        /\ WellFormed(inv[i].br[2].resp)

\* C4: multi_agent_query called with an empty model list returns an explicit
\* error object at once: the step that starts the invocation also ends it,
\* with {"error": ...} and not an empty aggregate, issues no request, takes
\* no session and leaves the shared session as it was.
C4_EmptyListIsError ==
    [][\A i \in Inv :
         (/\ inv[i].pc = "idle"
          /\ inv'[i].pc # "idle"
          /\ inv'[i].tool = "multi_agent_query"
          /\ inv'[i].models = <<>>)
         => /\ inv'[i].pc = "returned"
            /\ inv'[i].ret = JsonError("No models specified")
            /\ inv'[i].reqs = <<>>
            /\ inv'[i].br = <<>>
            /\ inv'[i].sess = 0
            /\ UNCHANGED <<session, npools, closedPools>>]_vars

\* the error object was returned and no session was ever created
C4_Witness ==
    \E i \in Inv :
        /\ inv[i].tool = "multi_agent_query"
        /\ inv[i].pc = "returned"
        /\ inv[i].models = <<>>
        /\ JsonKeys(inv[i].ret) = {"error"}
        /\ session = 0
        /\ npools = 0

OpenPools == (1..npools) \ closedPools

InFlight(i) == inv[i].pc \in {"wait", "gather"}

\* C5: the shared session is created only when none exists or the existing
\* one is closed: at most one open session exists, every session but the
\* current one is closed, and invocations in flight at the same time hold
\* the same open session.
C5_OneOpenPool ==
    /\ [](/\ Cardinality(OpenPools) <= 1
          /\ \A p \in 1..npools : p # session => p \in closedPools
          /\ \A i, j \in Inv :
               (InFlight(i) /\ InFlight(j)
                /\ inv[i].sess \in OpenPools /\ inv[j].sess \in OpenPools)
               => inv[i].sess = inv[j].sess)
    /\ [][npools' # npools => (session = 0 \/ session \in closedPools)]_vars

\* two invocations in flight on the one session
C5_Witness ==
    \E i, j \in Inv :
        /\ i # j
        /\ InFlight(i) /\ InFlight(j)
        /\ inv[i].sess = session /\ inv[j].sess = session
        /\ session \in OpenPools
        /\ npools = 1

\* C6: no invocation of a tool ends with an uncaught fault, whatever the
\* backend does: one that has ended has returned a text.
C6_NoUncaughtFault ==
    \A i \in Inv :
        /\ inv[i].pc # "raised"
        /\ inv[i].pc = "returned" => inv[i].ret.kind \in {"text", "json", "jsonerr"}

\* list_models returned a text for a body whose entries have no id
C6_Witness ==
    \E i \in Inv :
        /\ inv[i].tool = "list_models"
        /\ inv[i].pc = "returned"
        /\ inv[i].resp.kind = "http" /\ inv[i].resp.status = 200
        /\ inv[i].resp.body.data = "noid"
        /\ inv[i].ret.text = "Error listing models: 'id'"

\* the response has no choices, or its first choice has no content or an
\* empty one
NoContent(body) ==
    \/ body.choices \in {"absent", "empty"}
    \/ ~body.hasMessage
    \/ ~body.hasContent
    \/ body.content = ""

\* the text begins with "Error"
IsErrorText(t) == Len(t) >= 5 /\ SubSeq(t, 1, 5) = "Error"

\* C7: chat_completion never returns an empty success: on status 200 with a
\* response that has no choices, or whose first choice has a missing or empty
\* content, it returns an error text ("Error: ..."), never an empty one; what
\* it returns is the model's content only when that content is not empty.
C7_NoEmptySuccess ==
    \A i \in Inv :
        (/\ inv[i].tool = "chat_completion"
         /\ inv[i].pc \in {"returned", "raised"}
         /\ inv[i].resp.kind = "http" /\ inv[i].resp.status = 200)
        => /\ inv[i].pc = "returned"
           /\ inv[i].ret.text # ""
           /\ (~inv[i].resp.body.json \/ NoContent(inv[i].resp.body))
              => IsErrorText(inv[i].ret.text)
           /\ (inv[i].resp.body.json /\ NoContent(inv[i].resp.body))
              => inv[i].ret.text \in {"Error: No response generated",
                                      "Error: Empty response from model"}
           /\ (inv[i].resp.body.json /\ ~NoContent(inv[i].resp.body))
              => inv[i].ret.text = inv[i].resp.body.content

\* status 200 with an empty content was answered with the error text
C7_Witness ==
    \E i \in Inv :
        /\ inv[i].tool = "chat_completion"
        /\ inv[i].pc = "returned"
        /\ inv[i].resp.kind = "http" /\ inv[i].resp.status = 200
        /\ inv[i].resp.body.hasContent /\ inv[i].resp.body.content = ""
        /\ inv[i].ret.text = "Error: Empty response from model"

\* the requests of invocation i are those of the branches started so far,
\* one each and in list order, with the fields of the call
OneRequestEach(i) ==
    LET slot == inv[i]
        started == {k \in DOMAIN slot.br : slot.br[k].st # "new"}
    IN  /\ Len(slot.reqs) = Cardinality(started)
        /\ \A k \in started :
             /\ k <= Len(slot.reqs)
             /\ slot.reqs[k].method = "POST"
             /\ slot.reqs[k].hasModel
             /\ slot.reqs[k].model = slot.models[k]
             /\ slot.reqs[k].messages = Messages(slot.args)
             /\ slot.reqs[k].temperature = slot.args.temperature
             /\ slot.reqs[k].max_tokens = slot.args.max_tokens
        /\ slot.pc \in {"returned", "raised"} => Len(slot.reqs) = Len(slot.models)

C9_UnknownRecorded ==
    \A i \in Inv :
        (FanoutEnded(i) /\ \E k \in DOMAIN inv[i].br : inv[i].br[k].out.tag = "exc")
        => /\ inv[i].pc = "returned"
           /\ inv[i].ret.kind = "json"
           /\ "unknown" \in JsonKeys(inv[i].ret)
           /\ ~inv[i].ret.obj["unknown"].success
           /\ \A k \in DOMAIN inv[i].br :
                inv[i].br[k].out.tag = "tuple" => inv[i].models[k] \in JsonKeys(inv[i].ret)

\* C10: with fair scheduling and every issued request getting a response or
\* its timeout, every multi_agent_query invocation returns; no step that ends
\* one request or resumes the fan-out cancels or otherwise changes another
\* request, so each request runs to its own completion.
C10_EventuallyReturns ==
    /\ \A i \in FanoutSlots :
         (inv[i].tool = "multi_agent_query" /\ inv[i].pc = "gather")
         ~> (inv[i].tool = "multi_agent_query" /\ inv[i].pc = "returned")
    /\ [][\A i \in Inv : \A k \in DOMAIN inv[i].br :
            (/\ inv[i].pc = "gather"
             /\ inv[i].br[k].st # "done"
             /\ inv'[i].br # <<>>
             /\ inv'[i].br[k] # inv[i].br[k])
            => /\ inv'[i].pc = "gather"
               /\ \A j \in DOMAIN inv[i].br \ {k} : inv'[i].br[j] = inv[i].br[j]
               /\ \/ inv[i].br[k].st = "new" /\ inv'[i].br[k].st = "sent"
                  \/ inv[i].br[k].st = "sent" /\ inv'[i].br[k].st = "done"]_vars

\* an invocation returned after one request failed while another was in flight
C10_Witness ==
    \E i \in Inv :
        /\ FanoutEnded(i)
        /\ inv[i].pc = "returned"
        /\ Len(inv[i].models) = 2
        /\ inv[i].br[1].resp = NetErr
        /\ inv[i].br[2].resp.kind = "http" /\ inv[i].br[2].resp.status = 500


(* ---------------- the installer command: main() ------------------------ *)

\* what a run did that can be seen from outside it
Effect(kind, run) == [kind |-> kind, name |-> run.server_name, config |-> run.config,
                      file |-> run.args.output]

\* the server name, configuration and description main() settles on, or the
\* JSONDecodeError that leaves it
Configure(a) ==
    IF Truthy(a.preset)
    THEN LET preset == PRESETS(a.preset.text)
         IN  [raised |-> FALSE, server_name |-> preset.name, config |-> preset.config,
              description |-> preset.description]
    ELSE IF Truthy(a.url)
    THEN LET headers == LoadsIfGiven(a.headers)
         IN  [raised |-> headers.raised,
              server_name |-> OrDefault(a.name, "remote-mcp"),
              config |-> create_sse_config(a.url.text, headers.value),
              description |-> "Remote MCP server via SSE"]
    ELSE LET env_vars == LoadsIfGiven(a.env)
         IN  [raised |-> env_vars.raised,
              server_name |-> OrDefault(a.name, "custom-mcp"),
              config |-> create_stdio_config(OrDefault(a.command, "python3"),
                                             OrDefault(a.script, "mcp_server.py"),
                                             env_vars.value),
              description |-> "Custom MCP server"]

Does(kind, pc) ==
    cli' = [cli EXCEPT !.pc = pc, !.effects = Append(@, Effect(kind, cli))]

InstallerInit ==
    /\ session = 0
    /\ npools = 0
    /\ closedPools = {}
    /\ exited = FALSE
    /\ inv = [i \in Inv |-> IdleSlot]
    /\ \E a \in CliArgs : cli = [NoRun EXCEPT !.pc = "start", !.args = a]

\* parse_args to the end of the if/elif/else that builds the configuration
main_configure ==
    /\ cli.pc = "start"
    /\ LET c == Configure(cli.args)
       IN  cli' = IF c.raised
                  THEN [cli EXCEPT !.pc = "aborted"]
                  ELSE [cli EXCEPT !.pc = "configured", !.server_name = c.server_name,
                                   !.config = c.config, !.description = c.description]
    /\ UNCHANGED <<session, npools, closedPools, exited, inv>>

main_print_link ==
    /\ cli.pc = "configured"
    /\ cli.args.print_link
    /\ Does("print_deeplink", "manual")
    /\ UNCHANGED <<session, npools, closedPools, exited, inv>>

generate_html_installer ==
    /\ cli.pc = "configured"
    /\ ~cli.args.print_link
    /\ Does("write_html", IF cli.args.open THEN "open" ELSE "manual")
    /\ UNCHANGED <<session, npools, closedPools, exited, inv>>

main_open ==
    /\ cli.pc = "open"
    /\ Does("open_browser", "manual")
    /\ UNCHANGED <<session, npools, closedPools, exited, inv>>

main_print_manual ==
    /\ cli.pc = "manual"
    /\ Does("print_manual", "done")
    /\ UNCHANGED <<session, npools, closedPools, exited, inv>>

InstallerNext ==
    \/ main_configure
    \/ main_print_link
    \/ generate_html_installer
    \/ main_open
    \/ main_print_manual

InstallerSpec == InstallerInit /\ [][InstallerNext]_vars

(* ------------------------------ claim C11 ------------------------------ *)

\* the text of the option is given, not empty, and not JSON
Malformed(o) == Truthy(o) /\ o.text \notin {ValidJson, EmptyJson}

Untouched == cli.pc \in {"start", "aborted"} /\ cli.effects = <<>>

\* the branch of main() that reads --headers, and the one that reads --env
ReadsHeaders(a) == ~Truthy(a.preset) /\ Truthy(a.url)

ReadsEnv(a) == ~Truthy(a.preset) /\ ~Truthy(a.url)

FatalArgs(a) ==
    \/ ReadsHeaders(a) /\ Malformed(a.headers)
    \/ ReadsEnv(a) /\ Malformed(a.env)

\* C11 as stated: whatever the other options are, a run given malformed JSON for
\* --headers or for --env never gets past its start: it has no side effect
C11_AsStated ==
    (Malformed(cli.args.headers) \/ Malformed(cli.args.env)) => Untouched

\* C11: malformed JSON for --headers is fatal when --url is given without
\* --preset, and malformed JSON for --env is fatal when neither --preset nor --url
\* is given: such a run aborts with no side effect, and no other run aborts; a run
\* that does not read the malformed option ends with its outputs written
C11_MalformedJsonFatal ==
    /\ FatalArgs(cli.args) => Untouched
    /\ cli.pc = "aborted" => FatalArgs(cli.args)
    /\ cli.pc = "done" =>
          /\ ~FatalArgs(cli.args)
          /\ cli.effects # <<>>
          /\ cli.effects[Len(cli.effects)].kind = "print_manual"

\* a run given --url and malformed --headers has aborted with nothing done
C11_Witness ==
    /\ cli.pc = "aborted"
    /\ ReadsHeaders(cli.args)
    /\ Malformed(cli.args.headers)
    /\ cli.effects = <<>>

====
